---- MODULE Spec2Model ----
(***************************************************************************)
(* Model of the ECE65 lab-setup tool: the oscilloscope data copier of      *)
(* helper.py (OscilloscopeDataCopier, File, CSVFile, JPGFile) and the      *)
(* setup_lab.py command line script.                                       *)
(*                                                                         *)
(* A Python str is a sequence of one-character strings, so that split,     *)
(* slicing, lower() and glob matching are computed character by character. *)
(* The filesystem is a function from absolute path strings to nodes.       *)
(***************************************************************************)
EXTENDS Integers, Sequences, FiniteSets, TLC

VARIABLES
    fs,        \* the filesystem: path -> node
    scanRev,   \* directory scan order of the drive (FALSE: ScanOrder, TRUE: reversed)
    fd1,       \* whether file descriptor 1 (stdout) is open
    phase,     \* position of the client / of the script
    copier,    \* the OscilloscopeDataCopier object, or NoCopier
    call,      \* arguments of the last call
    err,       \* exception raised by the last call, or "None"
    log,       \* filesystem operations performed by the last call
    before,    \* [fs, err] as they were when the last call started
    args,      \* parsed command line of setup_lab.py
    renamed    \* File objects built by the renaming probes

vars == <<fs, scanRev, fd1, phase, copier, call, err, log, before, args, renamed>>

-----------------------------------------------------------------------------
(* Bounds of the model *)

MaxDirs == 2        \* top-level directories on the drive
MaxFiles == 2       \* files on the drive
MaxExercises == 2   \* --num-exercises
MaxStudents == 2    \* --student-names / --student-ids
MaxProbes == 2      \* File objects built in the renaming specification

-----------------------------------------------------------------------------
(* Python str operations *)

UpperChars == <<"A","B","C","D","E","F","G","H","I","J","K","L","M",
                "N","O","P","Q","R","S","T","U","V","W","X","Y","Z">>
LowerChars == <<"a","b","c","d","e","f","g","h","i","j","k","l","m",
                "n","o","p","q","r","s","t","u","v","w","x","y","z">>

LowerChar(c) ==
    IF \E i \in 1..Len(UpperChars) : UpperChars[i] = c
    THEN LowerChars[CHOOSE i \in 1..Len(UpperChars) : UpperChars[i] = c]
    ELSE c

\* str.lower()
Lower(s) == [i \in 1..Len(s) |-> LowerChar(s[i])]

\* str.split(sep) for a one-character separator
RECURSIVE Split(_, _)
Split(s, sep) ==
    IF \A i \in 1..Len(s) : s[i] # sep
    THEN <<s>>
    ELSE LET k == CHOOSE i \in 1..Len(s) :
                      s[i] = sep /\ \A j \in 1..(i - 1) : s[j] # sep
         IN  <<SubSeq(s, 1, k - 1)>> \o Split(SubSeq(s, k + 1, Len(s)), sep)

\* the width of the slice name[-7:]
SuffixLen == 7

\* Suffix with the slice name[-3:]: the extension alone
SuffixExtensionOnly(name) ==
    IF Len(name) <= 3 THEN name ELSE SubSeq(name, Len(name) - 2, Len(name))

\* name[-7:]
Suffix(name) ==
    IF Len(name) <= SuffixLen THEN name
    ELSE SubSeq(name, Len(name) - SuffixLen + 1, Len(name))

\* parts[-2] of a list; a list with fewer than two elements raises IndexError
HasParent(location) == Len(Split(location, "/")) >= 2
SecondLast(location) ==
    LET parts == Split(location, "/") IN parts[Len(parts) - 1]

-----------------------------------------------------------------------------
(* os.path *)

\* position of the last "/" of p, 0 when there is none
LastSep(p) ==
    IF \E i \in 1..Len(p) : p[i] = "/"
    THEN CHOOSE i \in 1..Len(p) : p[i] = "/" /\ \A j \in (i + 1)..Len(p) : p[j] # "/"
    ELSE 0

\* os.path.basename
Basename(p) == SubSeq(p, LastSep(p) + 1, Len(p))

RECURSIVE RStripSep(_)
RStripSep(p) ==
    IF p # <<>> /\ p[Len(p)] = "/" THEN RStripSep(SubSeq(p, 1, Len(p) - 1)) ELSE p

\* os.path.dirname
Dirname(p) ==
    LET head == SubSeq(p, 1, LastSep(p))
    IN  IF head # <<>> /\ \E i \in 1..Len(head) : head[i] # "/"
        THEN RStripSep(head) ELSE head

\* os.path.join(a, b)
Join(a, b) ==
    IF b # <<>> /\ b[1] = "/" THEN b
    ELSE IF a = <<>> \/ a[Len(a)] = "/" THEN a \o b
    ELSE a \o <<"/">> \o b

\* The Python value True, which setup_lab.py passes where a path is expected.
PyTrue == <<"True">>
IsStr(x) == x # PyTrue

-----------------------------------------------------------------------------
(* The filesystem *)

DirNode == [kind |-> "dir", data |-> <<>>]
FileNode(content) == [kind |-> "file", data |-> content]

\* os.path.exists: an int (True is 1) is taken as a file descriptor
Exists(f, p) == IF IsStr(p) THEN p \in DOMAIN f ELSE fd1

IsDir(f, p) == p \in DOMAIN f /\ f[p].kind = "dir"

Children(f, p) == {q \in DOMAIN f : q # p /\ Dirname(q) = p}

\* f with path p bound to node n
Put(f, p, n) == [q \in DOMAIN f \cup {p} |-> IF q = p THEN n ELSE f[q]]

\* f without path p
Remove(f, p) == [q \in DOMAIN f \ {p} |-> f[q]]

\* fnmatch of a name against a pattern whose only wildcard is "*"
RECURSIVE FnMatch(_, _)
FnMatch(pat, s) ==
    IF pat = <<>> THEN s = <<>>
    ELSE IF Head(pat) = "*"
         THEN FnMatch(Tail(pat), s) \/ (s # <<>> /\ FnMatch(pat, Tail(s)))
         ELSE s # <<>> /\ Head(s) = Head(pat) /\ FnMatch(Tail(pat), Tail(s))

\* glob skips hidden names unless the pattern itself starts with a dot
GlobMatch(pat, name) ==
    /\ (name # <<>> /\ name[1] = ".") => (pat # <<>> /\ pat[1] = ".")
    /\ FnMatch(pat, name)

-----------------------------------------------------------------------------
(* Names on the drive and in the destination *)

Volumes == <<"/","V","o","l","u","m","e","s">>
DefaultDrive == <<"E","C","E","6","5","-","D","A","T","A">>
OtherDrive == <<"U","S","B">>

E1P1 == <<"E","1","P","1">>
EXPORT == <<"E","X","P","O","R","T">>
ALL0000 == <<"A","L","L","0","0","0","0">>
DirNames == {E1P1, EXPORT, ALL0000}

F0000CH1 == <<"F","0","0","0","0","C","H","1",".","C","S","V">>
F0001CH1 == <<"F","0","0","0","1","C","H","1",".","C","S","V">>
F0000CH2 == <<"F","0","0","0","0","C","H","2",".","C","S","V">>
F0000TEK == <<"F","0","0","0","0","T","E","K",".","J","P","G">>
FileNames == {F0000CH1, F0001CH1, F0000CH2, F0000TEK}

\* the order in which a directory scan yields the names it holds
ScanOrder == <<E1P1, EXPORT, ALL0000, F0000CH1, F0001CH1, F0000CH2, F0000TEK>>

Reverse(s) == [i \in 1..Len(s) |-> s[Len(s) + 1 - i]]

JpgsName == <<"j","p","g","s">>
JpgExt == <<".","j","p","g">>
PatExercise == <<"E","*","P","*">>
PatJPG == <<"*",".","J","P","G">>
PatCSV == <<"*",".","C","S","V">>

\* the naming convention E<N>P<M> of the class documentation
Digits == {"0","1","2","3","4","5","6","7","8","9"}
IsExercisePart(name) ==
    \E k \in 3..(Len(name) - 1) :
        /\ name[1] = "E"
        /\ name[k] = "P"
        /\ \A i \in 2..(k - 1) : name[i] \in Digits
        /\ \A i \in (k + 1)..Len(name) : name[i] \in Digits

-----------------------------------------------------------------------------
(* glob *)

\* names of the entries of directory dir, in scan order
ListDir(f, dir) ==
    SelectSeq(IF scanRev THEN Reverse(ScanOrder) ELSE ScanOrder,
              LAMBDA n : Join(dir, n) \in DOMAIN f)

\* glob(pathname) for a pattern whose directory part has no wildcard
Glob(f, pathname) ==
    LET dir == Dirname(pathname)
        pat == Basename(pathname)
        names == SelectSeq(ListDir(f, dir), LAMBDA n : GlobMatch(pat, n))
    IN  IF IsDir(f, dir) THEN [i \in 1..Len(names) |-> Join(dir, names[i])] ELSE <<>>

-----------------------------------------------------------------------------
(* A call in progress: the filesystem, the exception raised, the operations *)

Raise(m, e) == [m EXCEPT !.err = e]
Did(m, op, src, dst) == [m EXCEPT !.log = @ \cup {[op |-> op, src |-> src, dst |-> dst]}]
Started(f) == [fs |-> f, err |-> "None", log |-> {}]

\* os.makedirs(p), called only when p does not exist
RECURSIVE Makedirs(_, _)
Makedirs(m, p) ==
    LET up == Dirname(p)
        m1 == IF up \in DOMAIN m.fs \/ up = p THEN m ELSE Makedirs(m, up)
    IN  IF m1.err # "None" THEN m1
        ELSE IF ~IsDir(m1.fs, up) THEN Raise(m1, "NotADirectoryError")
        ELSE Did([m1 EXCEPT !.fs = Put(m1.fs, p, DirNode)], "makedirs", <<>>, p)

\* os.rmdir(p)
Rmdir(m, p) ==
    IF m.err # "None" THEN m
    ELSE IF ~IsDir(m.fs, p) THEN Raise(m, "NotADirectoryError")
    ELSE IF Children(m.fs, p) # {} THEN Raise(m, "OSError")
    ELSE Did([m EXCEPT !.fs = Remove(m.fs, p)], "rmdir", <<>>, p)

\* shutil.copy(src, dst)
ShutilCopy(m, src, dst) ==
    LET target == IF IsDir(m.fs, dst) THEN Join(dst, Basename(src)) ELSE dst
    IN  IF IsDir(m.fs, src) \/ IsDir(m.fs, target) THEN Raise(m, "IsADirectoryError")
        ELSE IF Dirname(target) \notin DOMAIN m.fs THEN Raise(m, "FileNotFoundError")
        ELSE IF ~IsDir(m.fs, Dirname(target)) THEN Raise(m, "NotADirectoryError")
        ELSE Did([m EXCEPT !.fs = Put(m.fs, target, FileNode(m.fs[src].data))],
                 "copy", src, target)

-----------------------------------------------------------------------------
(* OscilloscopeDataCopier.File, CSVFile, JPGFile *)

\* File.__init__
File(f, location) ==
    IF Exists(f, location)
    THEN [location |-> location, name |-> Basename(location), err |-> "None"]
    ELSE [location |-> location, name |-> <<>>, err |-> "FileNotFoundError"]

\* CSVFile.__init__ that keeps the whole file name after the directory name
CSVFileWholeName(f, location, rename) ==
    LET self == File(f, location)
    IN  IF self.err # "None" \/ ~rename THEN self
        ELSE IF ~HasParent(location) THEN [self EXCEPT !.err = "IndexError"]
        ELSE [self EXCEPT !.name = Lower(SecondLast(location) \o <<".">> \o self.name)]

\* CSVFile.__init__
CSVFile(f, location, rename) ==
    LET self == File(f, location)
    IN  IF self.err # "None" \/ ~rename THEN self
        ELSE IF ~HasParent(location) THEN [self EXCEPT !.err = "IndexError"]
        ELSE [self EXCEPT !.name =
                  Lower(SecondLast(location) \o <<".">> \o Suffix(self.name))]

\* JPGFile.__init__
JPGFile(f, location) ==
    LET self == File(f, location)
    IN  IF self.err # "None" THEN self
        ELSE IF ~HasParent(location) THEN [self EXCEPT !.err = "IndexError"]
        ELSE [self EXCEPT !.name = Lower(SecondLast(location)) \o JpgExt]

\* File.save
Save(m, self, destination, softrun) ==
    IF m.err # "None" THEN m
    ELSE IF self.err # "None" THEN Raise(m, self.err)
    ELSE IF ~Exists(m.fs, destination) THEN Raise(m, "FileNotFoundError")
    ELSE IF ~IsStr(destination) THEN Raise(m, "TypeError")
    ELSE IF softrun THEN m
    ELSE ShutilCopy(m, self.location, Join(destination, self.name))

-----------------------------------------------------------------------------
(* OscilloscopeDataCopier *)

NoCopier == [made |-> FALSE, drive_location |-> <<>>, exercise_parts |-> <<>>]

\* OscilloscopeDataCopier.__init__: the outcome m of the call and the object
CopierInit(f, drive_name) ==
    LET drive_location == Join(Volumes, drive_name)
        pattern == Join(drive_location, PatExercise)
        m == Started(f)
    IN  IF ~Exists(f, drive_location)
        THEN [m |-> Raise(m, "FileNotFoundError"), self |-> NoCopier]
        ELSE [m |-> Did(m, "glob", pattern, <<>>),
              self |-> [made |-> TRUE,
                        drive_location |-> drive_location,
                        exercise_parts |-> Glob(f, pattern)]]

\* copy_scope_data, the loop that saves the first JPG of every exercise part
RECURSIVE SaveJPGs(_, _, _, _)
SaveJPGs(m, parts, to_save_path, softrun) ==
    IF m.err # "None" \/ parts = <<>> THEN m
    ELSE LET pattern == Join(Head(parts), PatJPG)
             found == Glob(m.fs, pattern)
             m1 == Did(m, "glob", pattern, <<>>)
         IN  IF found = <<>> THEN Raise(m1, "IndexError")
             ELSE SaveJPGs(Save(m1, JPGFile(m1.fs, found[1]), to_save_path, softrun),
                           Tail(parts), to_save_path, softrun)

\* the save_jpg branch calling os.makedirs without looking whether jpgs exists
JPGPhaseAlwaysMakedirs(m, parts, destination, softrun) ==
    IF ~IsStr(destination) THEN Raise(m, "TypeError")
    ELSE LET to_save_path == Join(destination, JpgsName)
             m1 == IF Exists(m.fs, to_save_path) THEN Raise(m, "FileExistsError")
                   ELSE Makedirs(m, to_save_path)
             m2 == SaveJPGs(m1, parts, to_save_path, softrun)
         IN  IF softrun THEN Rmdir(m2, to_save_path) ELSE m2

\* copy_scope_data, the save_jpg branch
JPGPhase(m, parts, destination, softrun) ==
    IF ~IsStr(destination) THEN Raise(m, "TypeError")
    ELSE LET to_save_path == Join(destination, JpgsName)
             m1 == IF Exists(m.fs, to_save_path) THEN m ELSE Makedirs(m, to_save_path)
             m2 == SaveJPGs(m1, parts, to_save_path, softrun)
         IN  IF softrun THEN Rmdir(m2, to_save_path) ELSE m2

\* copy_scope_data, the loop over the CSV files of one exercise part
RECURSIVE SaveCSVs(_, _, _, _, _)
SaveCSVs(m, files, rename_csv, to_save_path, softrun) ==
    IF m.err # "None" \/ files = <<>> THEN m
    ELSE SaveCSVs(Save(m, CSVFile(m.fs, Head(files), rename_csv), to_save_path, softrun),
                  Tail(files), rename_csv, to_save_path, softrun)

\* copy_scope_data, the loop over the exercise parts
RECURSIVE CSVPhase(_, _, _, _, _, _)
CSVPhase(m, parts, destination, create_folders, rename_csv, softrun) ==
    IF m.err # "None" \/ parts = <<>> THEN m
    ELSE IF create_folders /\ ~IsStr(destination) THEN Raise(m, "TypeError")
    ELSE LET part == Head(parts)
             to_save_path == IF create_folders
                             THEN Join(destination, Basename(part)) ELSE destination
             m1 == IF create_folders /\ ~Exists(m.fs, to_save_path)
                   THEN Makedirs(m, to_save_path) ELSE m
             pattern == Join(part, PatCSV)
             m2 == SaveCSVs(Did(m1, "glob", pattern, <<>>), Glob(m1.fs, pattern),
                            rename_csv, to_save_path, softrun)
             m3 == IF softrun /\ create_folders THEN Rmdir(m2, to_save_path) ELSE m2
         IN  CSVPhase(m3, Tail(parts), destination, create_folders, rename_csv, softrun)

\* copy_scope_data without the check of the destination
CopyScopeDataUnchecked(f, self, destination, create_folders, rename_csv, save_jpg, softrun) ==
    LET m == Started(f)
        m1 == IF save_jpg
              THEN JPGPhase(m, self.exercise_parts, destination, softrun)
              ELSE m
    IN  CSVPhase(m1, self.exercise_parts, destination,
                 create_folders, rename_csv, softrun)

\* OscilloscopeDataCopier.copy_scope_data
CopyScopeData(f, self, destination, create_folders, rename_csv, save_jpg, softrun) ==
    LET m == Started(f)
    IN  IF ~Exists(f, destination) THEN Raise(m, "FileNotFoundError")
        ELSE LET m1 == IF save_jpg
                       THEN JPGPhase(m, self.exercise_parts, destination, softrun)
                       ELSE m
             IN  CSVPhase(m1, self.exercise_parts, destination,
                          create_folders, rename_csv, softrun)

-----------------------------------------------------------------------------
(* The states the copier is used in *)

Root == <<"/">>
DriveRoot == Join(Volumes, DefaultDrive)
Dest == <<"/","d">>
Missing == <<"/","x">>
Old == <<"o","l","d">>
StaleJPG == <<"e","1","p","1",".","j","p","g">>
StaleCSV == <<"o","l","d",".","c","s","v">>

\* what the drive holds: some directories, and some files in them
DriveLayouts ==
    UNION { { [dirs |-> D, files |-> F] :
                F \in {X \in SUBSET (D \X FileNames) : Cardinality(X) <= MaxFiles} } :
            D \in {X \in SUBSET DirNames : Cardinality(X) <= MaxDirs} }

FilePath(e) == Join(Join(DriveRoot, e[1]), e[2])

DriveFS(layout) ==
    LET dirs == {Root, Volumes, DriveRoot} \cup {Join(DriveRoot, d) : d \in layout.dirs}
        files == {FilePath(e) : e \in layout.files}
    IN  [p \in dirs \cup files |-> IF p \in files THEN FileNode(p) ELSE DirNode]

\* what the destination holds before the first call
DestVariants == {"empty", "emptyDirs", "stale"}

DestFS(variant) ==
    LET jpgs == Join(Dest, JpgsName)
        folder == Join(Dest, E1P1)
        dirs == {Dest} \cup (IF variant \in {"emptyDirs", "stale"} THEN {jpgs, folder} ELSE {})
        files == IF variant = "stale" THEN {Join(jpgs, StaleJPG), Join(folder, StaleCSV)}
                 ELSE {}
    IN  [p \in dirs \cup files |-> IF p \in files THEN FileNode(Old) ELSE DirNode]

Merge(f, g) == [p \in DOMAIN f \cup DOMAIN g |-> IF p \in DOMAIN f THEN f[p] ELSE g[p]]

NoCall == [op |-> "none", drive_name |-> <<>>, location |-> <<>>, destination |-> <<>>,
           create_folders |-> FALSE, rename_csv |-> FALSE, save_jpg |-> FALSE,
           softrun |-> FALSE]
NoArgs == [parsed |-> FALSE]

Init ==
    /\ fs \in {Merge(DriveFS(l), DestFS(v)) : l \in DriveLayouts, v \in DestVariants}
    /\ scanRev \in BOOLEAN
    /\ fd1 = TRUE
    /\ phase = "new"
    /\ copier = NoCopier
    /\ call = NoCall
    /\ err = "None"
    /\ log = {}
    /\ before = [fs |-> fs, err |-> "None"]
    /\ args = NoArgs
    /\ renamed = {}

\* the outcome m of a call becomes the state
Outcome(m) ==
    /\ before' = [fs |-> fs, err |-> err]
    /\ fs' = m.fs
    /\ err' = m.err
    /\ log' = m.log

\* copier = OscilloscopeDataCopier(drive_name)
Construct ==
    /\ phase = "new"
    /\ \E drive_name \in {DefaultDrive, OtherDrive} :
         LET r == CopierInit(fs, drive_name)
         IN  /\ Outcome(r.m)
             /\ copier' = r.self
             /\ call' = [NoCall EXCEPT !.op = "init", !.drive_name = drive_name]
             /\ phase' = IF r.m.err = "None" THEN "constructed" ELSE "failed"
    /\ UNCHANGED <<scanRev, fd1, args, renamed>>

RunCopy(c) ==
    Outcome(CopyScopeData(fs, copier, c.destination, c.create_folders,
                          c.rename_csv, c.save_jpg, c.softrun))

\* copier.copy_scope_data(destination, create_folders, rename_csv, save_jpg, softrun)
Copy ==
    /\ phase = "constructed"
    /\ \E destination \in {Dest, Missing}, create_folders \in BOOLEAN,
          rename_csv \in BOOLEAN, save_jpg \in BOOLEAN, softrun \in BOOLEAN :
         LET c == [NoCall EXCEPT !.op = "copy", !.destination = destination,
                                 !.create_folders = create_folders,
                                 !.rename_csv = rename_csv,
                                 !.save_jpg = save_jpg, !.softrun = softrun]
         IN  /\ RunCopy(c)
             /\ call' = c
    /\ phase' = "ran"
    /\ UNCHANGED <<scanRev, fd1, copier, args, renamed>>

\* the same call of copy_scope_data, made a second time
CopyAgain ==
    /\ phase = "ran"
    /\ RunCopy(call)
    /\ phase' = "reran"
    /\ UNCHANGED <<scanRev, fd1, copier, call, args, renamed>>

\* CSVFile(location, rename).save(destination, softrun=softrun) on its own
SaveFile ==
    /\ phase = "new"
    /\ \E location \in {p \in DOMAIN fs : fs[p].kind = "file" /\ Dirname(Dirname(p)) = DriveRoot},
          rename \in BOOLEAN, destination \in {Dest, Missing}, softrun \in BOOLEAN :
         /\ Outcome(Save(Started(fs), CSVFile(fs, location, rename), destination, softrun))
         /\ call' = [NoCall EXCEPT !.op = "save", !.location = location,
                                   !.rename_csv = rename,
                                   !.destination = destination, !.softrun = softrun]
    /\ phase' = "saved"
    /\ UNCHANGED <<scanRev, fd1, copier, args, renamed>>

Next == Construct \/ Copy \/ CopyAgain \/ SaveFile

Spec == Init /\ [][Next]_vars

-----------------------------------------------------------------------------
(* Properties of the copier *)

Copies == {w \in log : w.op = "copy"}
ParentName(p) == Basename(Dirname(p))
IsCSV(p) == FnMatch(PatCSV, Basename(p))
IsJPG(p) == FnMatch(PatJPG, Basename(p))

\* the channel suffix of a source file: the last 7 characters of its name
ChannelSuffix(p) ==
    LET n == Basename(p)
        k == IF Len(n) < 7 THEN Len(n) ELSE 7
    IN  [i \in 1..k |-> n[Len(n) - k + i]]

\* C2: when a copy_scope_data call with softrun=False has succeeded, the same
\* call made again on the unchanged drive succeeds too and leaves every
\* directory and file, with its contents, as the first call left it.
CopyIsIdempotent ==
    (phase = "reran" /\ ~call.softrun /\ before.err = "None")
        => (err = "None" /\ fs = before.fs)

\* C2 witness: a second run that copied files over the ones of the first run
CopyIsIdempotentWitness ==
    /\ phase = "reran" /\ ~call.softrun /\ before.err = "None" /\ err = "None"
    /\ call.save_jpg /\ call.create_folders
    /\ Cardinality(Copies) >= 2

\* C3: a constructor call for a drive that does not exist, and a
\* copy_scope_data or File.save call for a destination that does not exist,
\* raise FileNotFoundError having scanned nothing, created nothing and copied
\* nothing.
MissingPathFailsImmediately ==
    /\ (call.op = "init" /\ ~Exists(before.fs, Join(Volumes, call.drive_name)))
          => (err = "FileNotFoundError" /\ log = {} /\ fs = before.fs /\ ~copier.made)
    /\ (call.op \in {"copy", "save"} /\ ~Exists(before.fs, call.destination))
          => (err = "FileNotFoundError" /\ log = {} /\ fs = before.fs)

\* C3 witness: copy_scope_data, with exercise parts to copy, was called for a
\* missing destination and raised
MissingPathWitness ==
    /\ call.op = "copy" /\ call.destination = Missing /\ call.save_jpg
    /\ copier.exercise_parts # <<>>
    /\ err = "FileNotFoundError"

\* C5 (as claimed): every failure of the constructor and of copy_scope_data is
\* a FileNotFoundError.
OnlyFileNotFoundErrors ==
    call.op \in {"init", "copy"} => err \in {"None", "FileNotFoundError"}

\* C6 (as claimed): every file copy_scope_data copies comes from a directory
\* named E<N>P<M>.
OnlyExercisePartsCopied ==
    call.op = "copy" => \A w \in Copies : IsExercisePart(ParentName(w.src))

\* C9 (as claimed): a soft run into an existing destination completes and
\* leaves the filesystem as it was.
SoftRunChangesNothing ==
    (call.op = "copy" /\ call.softrun /\ Exists(before.fs, call.destination))
        => (err = "None" /\ fs = before.fs)

\* C10 (as claimed): in a successful run no two source files are written to
\* the same destination path.
NoTwoSourcesOnePath ==
    (call.op = "copy" /\ ~call.softrun /\ err = "None")
        => \A w1, w2 \in Copies : w1.src # w2.src => w1.dst # w2.dst

\* two CSV files the naming scheme keeps apart
CSVSeparated(a, b) ==
    IF call.rename_csv
    THEN \/ /\ ParentName(a) = ParentName(b)
            /\ Lower(ChannelSuffix(a)) # Lower(ChannelSuffix(b))
         \/ /\ Lower(ParentName(a)) # Lower(ParentName(b))
            /\ Len(Basename(a)) >= 7
            /\ Len(Basename(b)) >= 7
    ELSE \/ Basename(a) # Basename(b)
         \/ call.create_folders /\ ParentName(a) # ParentName(b)

\* C10 (amended): in a successful run two CSV files are written to distinct
\* paths when the naming scheme keeps them apart (same directory and channel
\* suffixes that differ ignoring case, or directories whose names differ
\* ignoring case and file names of at least 7 characters; without renaming,
\* different file names, or different directories under create_folders), two
\* JPG files when their directories' names differ ignoring case; and every
\* path written holds the content of a source written to it.
SeparatedSourcesDistinctPaths ==
    (call.op = "copy" /\ ~call.softrun /\ err = "None")
        => /\ \A w1, w2 \in Copies :
                 ( \/ IsCSV(w1.src) /\ IsCSV(w2.src) /\ CSVSeparated(w1.src, w2.src)
                   \/ /\ IsJPG(w1.src) /\ IsJPG(w2.src)
                      /\ Lower(ParentName(w1.src)) # Lower(ParentName(w2.src)) )
                 => w1.dst # w2.dst
           /\ \A w \in Copies :
                 /\ w.dst \in DOMAIN fs
                 /\ \E v \in Copies : v.dst = w.dst /\ fs[w.dst] = FileNode(v.src)

\* C10 witness: a successful run that wrote two CSV files of two directories
\* and two JPG files
SeparatedSourcesWitness ==
    /\ call.op = "copy" /\ ~call.softrun /\ err = "None" /\ call.rename_csv
    /\ \E w1, w2 \in Copies :
          /\ IsCSV(w1.src) /\ IsCSV(w2.src) /\ CSVSeparated(w1.src, w2.src)
          /\ w1.dst # w2.dst

-----------------------------------------------------------------------------
(* Renaming on its own: CSVFile and JPGFile objects built for files at *)
(* different places                                                    *)

H1CSV == <<"H","1",".","C","S","V">>
ProbePrefixes == {DriveRoot, Join(Join(Volumes, OtherDrive), E1P1), <<>>}
ProbeParents == {E1P1, EXPORT}
ProbeFiles == FileNames \cup {H1CSV}
ProbeLocations ==
    {Join(Join(pre, d), n) : pre \in ProbePrefixes, d \in ProbeParents, n \in ProbeFiles}

\* a filesystem that holds every probe location (the relative ones as they
\* are seen from the working directory)
ProbeFS == [p \in ProbeLocations |-> FileNode(p)]

InitRename ==
    /\ fs = ProbeFS
    /\ scanRev = FALSE
    /\ fd1 = TRUE
    /\ phase = "probe"
    /\ copier = NoCopier
    /\ call = NoCall
    /\ err = "None"
    /\ log = {}
    /\ before = [fs |-> fs, err |-> "None"]
    /\ args = NoArgs
    /\ renamed = {}

Probed(cls, rename, self) ==
    /\ renamed' = renamed \cup {[cls |-> cls, rename |-> rename, self |-> self]}
    /\ UNCHANGED <<fs, scanRev, fd1, phase, copier, call, err, log, before, args>>

\* CSVFile(location, rename)
NewCSVFile ==
    /\ phase = "probe"
    /\ Cardinality(renamed) < MaxProbes
    /\ \E location \in ProbeLocations, rename \in BOOLEAN :
         Probed("CSV", rename, CSVFile(fs, location, rename))

\* JPGFile(location)
NewJPGFile ==
    /\ phase = "probe"
    /\ Cardinality(renamed) < MaxProbes
    /\ \E location \in ProbeLocations :
         Probed("JPG", TRUE, JPGFile(fs, location))

NextRename == NewCSVFile \/ NewJPGFile

SpecRename == InitRename /\ [][NextRename]_vars

\* C1: two renaming CSVFile objects whose files have the same parent directory
\* name and the same channel suffix, and two JPGFile objects whose files have
\* the same parent directory name, have the same destination name.
SameParentAndChannelSameName ==
    \A a, b \in renamed :
        ( /\ a.cls = b.cls /\ a.rename /\ b.rename
          /\ ParentName(a.self.location) = ParentName(b.self.location)
          /\ a.cls = "CSV" =>
                ChannelSuffix(a.self.location) = ChannelSuffix(b.self.location) )
        => (a.self.err = "None" /\ b.self.err = "None" /\ a.self.name = b.self.name)

\* C1 witness: two CSV files under different paths and with different names
\* got one destination name
SameNameWitness ==
    \E a, b \in renamed :
        /\ a.cls = "CSV" /\ b.cls = "CSV" /\ a.rename /\ b.rename
        /\ Dirname(Dirname(a.self.location)) # Dirname(Dirname(b.self.location))
        /\ Basename(a.self.location) # Basename(b.self.location)
        /\ ParentName(a.self.location) = ParentName(b.self.location)
        /\ ChannelSuffix(a.self.location) = ChannelSuffix(b.self.location)
        /\ a.self.name = b.self.name

-----------------------------------------------------------------------------
(* setup_lab.py *)

Cwd == <<"/","w">>
LabNumberStr == <<"1">>       \* the lab number N given on the command line
LabName == <<"L","a","b"," ">> \o LabNumberStr
LabDir == Join(Cwd, LabName)
Assets == <<"a","s","s","e","t","s">>
Prelab == <<"p","r","e","l","a","b">>
Scope == <<"s","c","o","p","e">>
DigitChars == <<"1","2","3","4","5","6","7","8","9">>
ExpName(i) == <<"e","x","p">> \o <<DigitChars[i]>>
PrelabNotebook == Prelab \o LabNumberStr \o <<".","i","p","y","n","b">>
ReportNotebook ==
    <<"L","a","b"," ","R","e","p","o","r","t"," ">> \o LabNumberStr
        \o <<".","i","p","y","n","b">>
Notebook == <<"n","o","t","e","b","o","o","k">>

\* the argument checks without the comparison of the two lengths
ParserErrorNoLengths(a) ==
    \/ a.gen_notebooks /\ (a.student_names = 0 \/ a.student_ids = 0)
    \/ a.prelab_only /\ a.copy_only

\* the argument checks; TRUE when parser.error is called
ParserError(a) ==
    \/ /\ a.gen_notebooks
       /\ \/ a.student_names = 0 \/ a.student_ids = 0
          \/ a.student_names # a.student_ids
    \/ a.prelab_only /\ a.copy_only

MakeIfMissing(m, p) ==
    IF m.err # "None" \/ Exists(m.fs, p) THEN m ELSE Makedirs(m, p)

RECURSIVE MakeExpDirs(_, _, _)
MakeExpDirs(m, i, n) ==
    IF i > n THEN m
    ELSE MakeExpDirs(MakeIfMissing(m, Join(Join(LabDir, Prelab), ExpName(i))), i + 1, n)

\* the lab directory, its three subdirectories and prelab/exp<i>
CreateLabDirectories(f, a) ==
    LET m1 == MakeIfMissing(Started(f), LabDir)
        m2 == MakeIfMissing(m1, Join(LabDir, Assets))
        m3 == MakeIfMissing(m2, Join(LabDir, Prelab))
        m4 == MakeIfMissing(m3, Join(LabDir, Scope))
    IN  MakeExpDirs(m4, 1, a.num_exercises)

\* OscilloscopeDataCopier(drive_name=drive_name).copy_scope_data(destination)
\* with the default create_folders, rename_csv, save_jpg and softrun
CopierRun(f, drive_name, destination) ==
    LET r == CopierInit(f, drive_name)
    IN  IF r.m.err # "None" THEN r.m
        ELSE LET m == CopyScopeData(f, r.self, destination, FALSE, TRUE, TRUE, FALSE)
             IN  [m EXCEPT !.log = @ \cup r.m.log]

\* nbf.write of the two notebooks, the lab report removed first when it exists
WriteNotebooks(f) ==
    LET prelab == Join(LabDir, PrelabNotebook)
        report == Join(LabDir, ReportNotebook)
        m1 == Did([Started(f) EXCEPT !.fs = Put(f, prelab, FileNode(Notebook))],
                  "write", <<>>, prelab)
        m2 == IF Exists(m1.fs, report)
              THEN Did([m1 EXCEPT !.fs = Remove(m1.fs, report)], "remove", <<>>, report)
              ELSE m1
    IN  Did([m2 EXCEPT !.fs = Put(m2.fs, report, FileNode(Notebook))],
            "write", <<>>, report)

\* what the working directory holds before the run
CwdFS(variant) ==
    LET dirs == {Cwd} \cup
                (IF variant = "existing"
                 THEN {LabDir, Join(LabDir, Assets), Join(LabDir, Prelab),
                       Join(LabDir, Scope)}
                 ELSE {})
    IN  [p \in dirs |-> DirNode]

InitCLI ==
    /\ fs \in {Merge(DriveFS(l), CwdFS(v)) :
                 l \in {x \in DriveLayouts : Cardinality(x.dirs) <= 1},
                 v \in {"fresh", "existing"}}
    /\ scanRev = FALSE
    /\ fd1 \in BOOLEAN
    /\ phase = "cli"
    /\ copier = NoCopier
    /\ call = NoCall
    /\ err = "None"
    /\ log = {}
    /\ before = [fs |-> fs, err |-> "None"]
    /\ args = NoArgs
    /\ renamed = {}

\* a step of the script: its outcome m, added to what the run did so far
Step(m, next) ==
    /\ fs' = m.fs
    /\ err' = m.err
    /\ log' = log \cup m.log
    /\ phase' = IF m.err = "None" THEN next ELSE "raised"
    /\ UNCHANGED <<scanRev, fd1, copier, call, before, args, renamed>>

\* parse_args and the checks of the argument combinations
Validate ==
    /\ phase = "cli"
    /\ \E num_exercises \in 0..MaxExercises, gen_notebooks \in BOOLEAN,
          copy_only \in BOOLEAN, prelab_only \in BOOLEAN,
          drive_name \in {DefaultDrive, OtherDrive} :
        \E student_names \in (IF gen_notebooks THEN 0..MaxStudents ELSE {0}),
           student_ids \in (IF gen_notebooks THEN 0..MaxStudents ELSE {0}) :
          LET a == [parsed |-> TRUE, num_exercises |-> num_exercises,
                    gen_notebooks |-> gen_notebooks,
                    student_names |-> student_names, student_ids |-> student_ids,
                    copy_only |-> copy_only, prelab_only |-> prelab_only,
                    drive_name |-> drive_name]
          IN  /\ args' = a
              /\ phase' = IF ParserError(a) THEN "exit" ELSE "valid"
              /\ err' = IF ParserError(a) THEN "SystemExit" ELSE "None"
    /\ UNCHANGED <<fs, scanRev, fd1, copier, call, log, before, renamed>>

\* the copy_only branch
CopyOnly ==
    /\ phase = "valid"
    /\ args.copy_only
    /\ Step(CopierRun(fs, args.drive_name, PyTrue), "done")

\* the lab directory and its subdirectories
CreateLabDirs ==
    /\ phase = "valid"
    /\ ~args.copy_only
    /\ Step(CreateLabDirectories(fs, args), "dirs")

\* the copy from the drive into the scope directory
CopyFromDrive ==
    /\ phase = "dirs"
    /\ ~args.prelab_only
    /\ Step(CopierRun(fs, args.drive_name, Join(LabDir, Scope)), "copied")

ReadyForNotebooks == (phase = "dirs" /\ args.prelab_only) \/ phase = "copied"

\* the two notebooks
GenerateNotebooks ==
    /\ ReadyForNotebooks
    /\ args.gen_notebooks
    /\ Step(WriteNotebooks(fs), "notebooks")

\* print("Done.")
Finish ==
    /\ (ReadyForNotebooks /\ ~args.gen_notebooks) \/ phase = "notebooks"
    /\ phase' = "done"
    /\ UNCHANGED <<fs, scanRev, fd1, copier, call, err, log, before, args, renamed>>

NextCLI ==
    Validate \/ CopyOnly \/ CreateLabDirs \/ CopyFromDrive \/ GenerateNotebooks \/ Finish

SpecCLI == InitCLI /\ [][NextCLI]_vars

LabEntries == {p \in DOMAIN fs : p = LabDir \/ Dirname(p) = LabDir
                                   \/ Dirname(Dirname(p)) = LabDir}

\* C4 (as claimed): a run without --prelab-only for a drive that does not
\* exist fails, and when it fails the filesystem is as it was before the run.
MissingDriveChangesNothing ==
    (args.parsed /\ ~args.prelab_only
        /\ ~Exists(before.fs, Join(Volumes, args.drive_name)))
        => /\ phase # "done"
           /\ phase = "raised" => (err = "FileNotFoundError" /\ fs = before.fs)

\* C7: every invalid combination of arguments ends the run with a parser
\* error, no directory created, no file copied and no notebook written.
InvalidArgumentsExitFirst ==
    ( /\ args.parsed
      /\ \/ args.gen_notebooks /\ (args.student_names = 0 \/ args.student_ids = 0)
         \/ args.gen_notebooks /\ args.student_names # args.student_ids
         \/ args.copy_only /\ args.prelab_only )
    => (phase = "exit" /\ err = "SystemExit" /\ fs = before.fs /\ log = {})

\* C7 witness: a run with as many names as ids missing was ended
InvalidArgumentsWitness ==
    /\ phase = "exit"
    /\ args.gen_notebooks /\ args.student_names > 0 /\ args.student_ids > 0
    /\ args.student_names # args.student_ids
    /\ ~args.copy_only

\* C8 (as claimed): a copy-only run with an existing drive copies the data,
\* completes, and creates no lab directory and no notebook.
CopyOnlyCompletes ==
    (args.parsed /\ args.copy_only /\ phase \in {"done", "raised"}
        /\ Exists(before.fs, Join(Volumes, args.drive_name)))
        => (phase = "done" /\ err = "None" /\ LabEntries \subseteq DOMAIN before.fs)

====
